---- MODULE Spec2Model ----
(***************************************************************************)
(* Model of the file-handoff signing protocol of desktop-release-builder:  *)
(*   - Queue and watchDir of helpers.js,                                   *)
(*   - the Windows signing service (watchDir callback, handleFile),        *)
(*   - the osslsigncode replacement (signWindowsExecutable).               *)
(* Each JavaScript callback runs to completion, so one callback is one     *)
(* action; each asynchronous fs operation takes effect in one step, at an  *)
(* arbitrary moment after it was issued.                                   *)
(***************************************************************************)
EXTENDS Integers, Sequences, FiniteSets, TLC

\* ------------------------------------------------------------------------
\* Bounds of the model.
\* ------------------------------------------------------------------------
\* Number of Queue.add calls made by the queue's driver.
MaxOps == 3
\* Number of changes the environment makes to the directory of the lone watcher.
MaxChanges == 3
\* Number of times the osslsigncode replacement is run, one run after another.
MaxHandoffs == 2
\* Length of the value given to --certificate.
MaxCertLen == 5

\* ------------------------------------------------------------------------
\* Names.
\* ------------------------------------------------------------------------
\* The second argument of Queue.add when no name is given (undefined is falsy).
NoName == ""
\* The names the queue's driver uses.
Keys == {"X", "Y"}
\* The processes: a program that only watches a directory, the signing
\* service and the osslsigncode replacement.
Procs == {"lone", "agent", "client"}
\* The directory each process watches.
Dir(p) == CASE p = "lone" -> "dir" [] p = "agent" -> "in" [] p = "client" -> "out"
\* The directories: the three watched ones, and the one electron-builder
\* left the unsigned executable in.
Dirs == {"dir", "in", "out", "build"}
\* The names of directory entries.
FileNames == {"a.exe", "b.exe", "c.txt"}
\* The names used in the directory of the lone watcher.
LoneNames == {"a.exe", "b.exe"}
\* path.join(dir, name), path.basename(p) and path.extname(name) on the paths
\* and names of the model.
PathJoin(d, n) == d \o "/" \o n
Basename(path) ==
    CHOOSE n \in FileNames : \E d \in Dirs : PathJoin(d, n) = path
Dirname(path) ==
    CHOOSE d \in Dirs : \E n \in FileNames : PathJoin(d, n) = path
ExtName(n) ==
    CHOOSE e \in {".exe", ".txt"} : \E stem \in {"a", "b", "c"} : stem \o e = n
\* IN_FILE, the argument of -in: the unsigned executable electron-builder made.
IN_FILE == PathJoin("build", "a.exe")
\* What a directory holds under a name: nothing, a subdirectory, a symbolic
\* link to a directory, or a regular file with its content.
FileKinds == {"unsigned", "signed", "old"}
EntryKinds == {"none", "dir", "linkdir"} \cup FileKinds

VARIABLES
    \* Queue (helpers.js)
    names,      \* this.names: the set of properties set on the object
    tail,       \* this.tail: 0 for null, otherwise the index in ops of the
                \* operation whose promise is the tail
    ops,        \* every add call so far, in call order: [fn, name, after, state]
    \* The file system: fs[d][n] is what directory d holds under the name n
    fs,
    \* watchDir (helpers.js), one watcher per process
    fireInitially,  \* the argument fireInitially
    prevFiles,      \* [null, keys]: null, or the keys of the object
    cancelled,      \* the flag the disposer sets
    phase,          \* "timer": checkForChanges is scheduled or its readdir is
                    \*          in flight; "stat": the stats of a listing are
                    \*          outstanding; "off": nothing is scheduled;
                    \*          "failed": fs.readdir reported an error, nothing
                    \*          is scheduled
    pending,        \* the listed names whose fs.stat has not called back yet
    curFiles,       \* the keys of curFiles, in insertion order
    immediates,     \* the callbacks queued with setImmediate, oldest first
    status,         \* "running", or the reason the process died
    polls,          \* polls[p]: the calls of checkForChanges that are
                    \* scheduled, or started and not yet over
    \* History of the watchers, for stating the properties
    fired,          \* fired[p][n]: how often cb(n) was invoked
    firedSinceGone, \* the same, counted since the last completed poll whose
                    \* snapshot did not hold n
    polled,         \* the first poll has completed
    \* History of the directory of the lone watcher
    changes,        \* the number of changes made since watchDir was called
    atStart,        \* the regular files present when watchDir was called
    removed,        \* the names deleted since
    added,          \* the names created as regular files since
    bornLate,       \* those of them created after the disposer was called
    listed,         \* listed[n]: "never": no fs.readdir of the lone watcher
                    \* has returned n; "current": one has returned the entry
                    \* now under n, and none an earlier one; "earlier": one
                    \* has returned an entry under n that was deleted since,
                    \* and none the entry now there, if any; "again": both
    \* The signing service
    accessing,      \* accessing[n]: the fs.access calls in flight for in/n
    accessLost,     \* history: the names whose fs.access reported an error
    reportOrder,    \* history: the names the service's callback was invoked
                    \* for, in the order of the invocations
    signFailed,     \* history: the indices in ops of the jobs whose signtool
                    \* run ended with an error
    moves,          \* history: <<filepath, newpath>> of every rename the
                    \* service completed
    served,         \* history: the service relocated the file of the current
                    \* handoff
    \* The osslsigncode replacement
    clientMove,     \* the rename into `in`: "pending", "done" or "failed"
    resolved,       \* the value signWindowsExecutable's promise resolved
                    \* with, "" while it is pending
    retrieved,      \* the then-handler of lines 43-57 has run
    outFile,        \* what OUT_FILE holds
    handoffs,       \* the number of runs of the osslsigncode replacement
    \* signFile (signing service)
    certName,       \* CERT_NAME, as a sequence of characters; <<>> when the
                    \* option is not given
    signPath,       \* the argument filepath
    signArgs,       \* the arguments execFile was called with, <<>> before
    \* Startup of the signing service and of the builder
    pc,             \* pc[prog]: the step of the top-level code prog is at
    dirState,       \* dirState[d]: "present", "absent", or "blocked" (absent
                    \* and impossible to create)
    world,          \* what the programs find: platform, options, the
                    \* signtool candidates installed, the directories at first
    exitLog         \* history: [prog, reason, code] of every process.exit

qvars == <<names, tail, ops>>
wvars == <<fireInitially, prevFiles, cancelled, phase, pending, curFiles, polls,
           immediates, status, fired, firedSinceGone, polled>>
hvars == <<changes, atStart, removed, added, bornLate, listed>>
avars == <<accessing, accessLost, reportOrder, signFailed, moves, served>>
cvars == <<clientMove, resolved, retrieved, outFile, handoffs>>
bvars == <<certName, signPath, signArgs, pc, dirState, world, exitLog>>
vars == <<names, tail, ops, fs, fireInitially, prevFiles, cancelled, phase, polls,
          pending, curFiles, immediates, status, fired, firedSinceGone, polled,
          changes, atStart, removed, added, bornLate, listed, accessing,
          accessLost,
          reportOrder, signFailed, moves, served,
          clientMove, resolved, retrieved, outFile, handoffs,
          certName, signPath, signArgs, pc, dirState, world, exitLog>>

\* ------------------------------------------------------------------------
\* Queue
\* ------------------------------------------------------------------------
\* States of one submitted operation:
\*   "discarded": add returned early;
\*   "waiting":   registered with tail.then(fn), the tail not settled yet;
\*   "running":   fn was called, the promise it returned is pending;
\*   "fulfilled", "rejected": fn's promise settled;
\*   "skipped":   the promise it was chained to was rejected, so then() never
\*                called fn and the derived promise is rejected too.
\* In the signing service fn is handleFile, whose promise is pending through
\* two steps: "running" while signtool runs, "moving" while the rename into
\* `out` is in flight.
Started(i) == ops[i].state \in {"running", "moving", "fulfilled", "rejected"}
Settled(i) == ops[i].state \in {"fulfilled", "rejected", "skipped"}
Accepted(i) == ops[i].state # "discarded"

\* constructor: names = {}, tail = null.
QueueInit ==
    /\ names = {}
    /\ tail = 0
    /\ ops = <<>>

\* add, lines 33-35: the early return.
AlreadyQueued(name) == name # NoName /\ name \in names

\* add, line 36: `this.tail ? this.tail.then(fn) : fn()`: the state in which
\* the operation is left by the call.
AddedStateNoChain(t) == "running"
AddedState(t) == IF t # 0 THEN "waiting" ELSE "running"

\* add(fn, name)
QueueAdd(fn, name) ==
    IF AlreadyQueued(name)
    THEN /\ ops' = Append(ops, [fn |-> fn, name |-> name, after |-> 0,
                                state |-> "discarded"])
         /\ UNCHANGED <<names, tail>>
    ELSE /\ ops' = Append(ops, [fn |-> fn, name |-> name, after |-> tail,
                                state |-> AddedState(tail)])
         /\ tail' = Len(ops) + 1
         /\ UNCHANGED names

\* The reaction then(fn) registered on the previous tail: fn is called when
\* that promise is fulfilled; when it is rejected, fn is not called and the
\* derived promise is rejected.
ReactionState(prevState) ==
    IF prevState = "fulfilled" THEN "running" ELSE "skipped"

QueueReact(i) ==
    /\ i \in 1..Len(ops)
    /\ ops[i].state = "waiting"
    /\ Settled(ops[i].after)
    /\ ops' = [ops EXCEPT ![i].state = ReactionState(ops[ops[i].after].state)]
    /\ UNCHANGED <<names, tail>>

\* The promise returned by a running operation settles.
QueueSettle(i, ok) ==
    /\ i \in 1..Len(ops)
    /\ ops[i].state = "running"
    /\ ops' = [ops EXCEPT ![i].state = IF ok THEN "fulfilled" ELSE "rejected"]
    /\ UNCHANGED <<names, tail>>

\* ------------------------------------------------------------------------
\* watchDir
\* ------------------------------------------------------------------------
Range(seq) == {seq[i] : i \in 1..Len(seq)}
IsFile(kind) == kind \in FileKinds
\* lines 102-110: fs.stat follows symbolic links; stats.isFile() is true of
\* a regular file.
StatIsAny(kind) == TRUE
StatIsFile(kind) == IsFile(IF kind = "linkdir" THEN "dir" ELSE kind)
ZeroCount == [n \in FileNames |-> 0]

\* line 94: `let prevFiles = fireInitially ? {} : null`
InitPrevFilesNull(fi) == [null |-> TRUE, keys |-> {}]
InitPrevFilesEmpty(fi) == [null |-> FALSE, keys |-> {}]
InitPrevFiles(fi) == [null |-> ~fi, keys |-> {}]

\* lines 115-124: the names the callback is scheduled for, in the order of
\* Object.keys(curFiles): none when prevFiles is null, otherwise the keys of
\* curFiles that prevFiles lacks.
NewFilesAll(prev, cur) == IF prev.null THEN <<>> ELSE cur
NewFiles(prev, cur) ==
    IF prev.null THEN <<>>
    ELSE SelectSeq(cur, LAMBDA n : n \notin prev.keys)

\* line 128: what is scheduled when a poll is over.
NextPhaseAlways(c) == "timer"
NextPhase(c) == IF c THEN "off" ELSE "timer"
\* line 128: the number of calls of checkForChanges it schedules.
ScheduledTwice(c) == IF c THEN 0 ELSE 2
Scheduled(c) == IF c THEN 0 ELSE 1

\* line 99: `if (err) throw err` inside the callback of fs.readdir: nothing
\* catches the exception, the process dies.
ReaddirErrorLogged(err) == "running"
ReaddirError(err) == "uncaught"

\* The watcher of a process that has not called watchDir.
NoWatcher ==
    /\ fireInitially = [p \in Procs |-> FALSE]
    /\ prevFiles = [p \in Procs |-> [null |-> TRUE, keys |-> {}]]
    /\ cancelled = [p \in Procs |-> FALSE]
    /\ phase = [p \in Procs |-> "off"]
    /\ polls = [p \in Procs |-> 0]
    /\ pending = [p \in Procs |-> {}]
    /\ curFiles = [p \in Procs |-> <<>>]
    /\ immediates = [p \in Procs |-> <<>>]
    /\ status = [p \in Procs |-> "running"]
    /\ fired = [p \in Procs |-> ZeroCount]
    /\ firedSinceGone = [p \in Procs |-> ZeroCount]
    /\ polled = [p \in Procs |-> FALSE]

\* fs.readdir calls back (lines 98-113): the listing holds every entry of the
\* directory; one fs.stat is issued per entry. The timer is 1000 ms and the
\* callbacks queued with setImmediate run in the check phase of the loop
\* iteration that queued them, so they have run when the next readdir starts.
WatchReaddir(p) ==
    /\ status[p] = "running"
    /\ phase[p] = "timer"
    /\ immediates[p] = <<>>
    /\ phase' = [phase EXCEPT ![p] = "stat"]
    /\ pending' = [pending EXCEPT ![p] = {n \in FileNames : fs[Dir(p)][n] # "none"}]
    /\ curFiles' = [curFiles EXCEPT ![p] = <<>>]
    /\ UNCHANGED <<fireInitially, polls, prevFiles, cancelled, immediates, status,
                   fired, firedSinceGone, polled>>

\* fs.readdir calls back with an error (lines 98-99): the callback throws
\* before anything else is done.
WatchReaddirError(p) ==
    /\ status[p] = "running"
    /\ phase[p] = "timer"
    /\ immediates[p] = <<>>
    /\ phase' = [phase EXCEPT ![p] = "failed"]
    /\ status' = [status EXCEPT ![p] = ReaddirError("EIO")]
    /\ polls' = [polls EXCEPT ![p] = @ - 1]
    /\ UNCHANGED <<fireInitially, prevFiles, cancelled, pending, curFiles,
                   immediates, fired, firedSinceGone, polled>>

\* fs.stat calls back for one listed name (lines 102-112). When the entry is
\* gone, err is set and stats is undefined: fulfill() is called, then
\* stats.isFile() throws a TypeError inside the fs callback, which nothing
\* catches, and the process dies.
WatchStat(p, n) ==
    /\ status[p] = "running"
    /\ phase[p] = "stat"
    /\ n \in pending[p]
    /\ pending' = [pending EXCEPT ![p] = @ \ {n}]
    /\ IF fs[Dir(p)][n] = "none"
       THEN /\ status' = [status EXCEPT ![p] = "TypeError"]
            /\ UNCHANGED curFiles
       ELSE /\ curFiles' = [curFiles EXCEPT ![p] =
                               IF StatIsFile(fs[Dir(p)][n]) THEN Append(@, n) ELSE @]
            /\ UNCHANGED status
    /\ UNCHANGED <<fireInitially, polls, prevFiles, cancelled, phase, immediates,
                   fired, firedSinceGone, polled>>

\* Promise.all(promises).then (lines 114-129): schedule the callbacks, switch
\* prev to cur, schedule the next check.
\* line 126: `prevFiles = curFiles`
KeepSnapshot(prev, cur) == prev
NewSnapshot(prev, cur) == [null |-> FALSE, keys |-> Range(cur)]

WatchDiff(p) ==
    /\ status[p] = "running"
    /\ phase[p] = "stat"
    /\ pending[p] = {}
    /\ immediates' = [immediates EXCEPT ![p] = @ \o NewFiles(prevFiles[p], curFiles[p])]
    /\ prevFiles' = [prevFiles EXCEPT ![p] = NewSnapshot(@, curFiles[p])]
    /\ phase' = [phase EXCEPT ![p] = NextPhase(cancelled[p])]
    /\ polls' = [polls EXCEPT ![p] = @ - 1 + Scheduled(cancelled[p])]
    /\ firedSinceGone' = [firedSinceGone EXCEPT ![p] =
            [n \in FileNames |-> IF n \in Range(curFiles[p]) THEN @[n] ELSE 0]]
    /\ polled' = [polled EXCEPT ![p] = TRUE]
    /\ UNCHANGED <<fireInitially, cancelled, pending, curFiles, status, fired>>

\* A callback queued with setImmediate is taken from the queue (line 120);
\* what cb does with the name follows in the action of each process.
TakeImmediate(p) ==
    /\ status[p] = "running"
    /\ immediates[p] # <<>>
    /\ immediates' = [immediates EXCEPT ![p] = Tail(@)]
    /\ fired' = [fired EXCEPT ![p][Head(immediates[p])] = @ + 1]
    /\ firedSinceGone' = [firedSinceGone EXCEPT ![p][Head(immediates[p])] = @ + 1]

\* The disposer (lines 137-139).
Dispose(p) == cancelled' = [cancelled EXCEPT ![p] = TRUE]

\* --- the queue driven on its own ---
DriverAdd ==
    /\ Len(ops) < MaxOps
    /\ \E name \in Keys \cup {NoName} : QueueAdd("op", name)
    /\ UNCHANGED <<fs, wvars, hvars, bvars, avars, cvars>>

DriverReact ==
    /\ \E i \in 1..MaxOps : QueueReact(i)
    /\ UNCHANGED <<fs, wvars, hvars, bvars, avars, cvars>>

DriverSettle ==
    /\ \E i \in 1..MaxOps : \E ok \in BOOLEAN : QueueSettle(i, ok)
    /\ UNCHANGED <<fs, wvars, hvars, bvars, avars, cvars>>

EmptyDirs == [d \in Dirs |-> [n \in FileNames |-> "none"]]
NoHistory ==
    /\ changes = 0
    /\ atStart = {}
    /\ removed = {}
    /\ added = {}
    /\ bornLate = {}
    /\ listed = [n \in FileNames |-> "never"]

\* The signing service and the osslsigncode replacement not started.
NoHandoff ==
    /\ accessing = [n \in FileNames |-> 0]
    /\ accessLost = {}
    /\ reportOrder = <<>>
    /\ signFailed = {}
    /\ moves = {}
    /\ served = FALSE
    /\ clientMove = "none"
    /\ resolved = ""
    /\ retrieved = FALSE
    /\ outFile = "none"
    /\ handoffs = 0

\* Top-level code of the signing service and of the builder done, nothing
\* given to signFile yet.
Programs == {"agent", "builder"}
NoSignFile ==
    /\ certName = <<>>
    /\ signPath = ""
    /\ signArgs = <<>>
StartupDone ==
    /\ pc = [prog \in Programs |-> IF prog = "agent" THEN "watching" ELSE "main"]
    /\ dirState = [d \in {"in", "out", "dest"} |-> "present"]
    /\ world = [platform |-> "win32", shared |-> TRUE, tools |-> {1},
                builderShared |-> TRUE, destination |-> FALSE,
                in0 |-> "present", out0 |-> "present", dest0 |-> "present"]
    /\ exitLog = {}

QInit ==
    /\ QueueInit /\ fs = EmptyDirs /\ NoWatcher /\ NoHistory /\ NoHandoff
    /\ NoSignFile /\ StartupDone
QNext == DriverAdd \/ DriverReact \/ DriverSettle
QueueSpec == QInit /\ [][QNext]_vars

\* --- a lone watcher: watchDir(dir, fireInitially, cb) has just returned, its
\* first readdir is in flight; cb only counts. Something else creates and
\* deletes entries of the directory, and calls the disposer.
LoneInit ==
    /\ QueueInit
    /\ \E d \in [FileNames -> {"none", "dir", "linkdir", "unsigned"}] :
          /\ \A n \in FileNames \ LoneNames : d[n] = "none"
          /\ fs = [EmptyDirs EXCEPT !["dir"] = d]
          /\ atStart = {n \in FileNames : IsFile(d[n])}
    /\ \E fi \in BOOLEAN :
          /\ fireInitially = [p \in Procs |-> p = "lone" /\ fi]
          /\ prevFiles = [p \in Procs |->
                IF p = "lone" THEN InitPrevFiles(fi) ELSE [null |-> TRUE, keys |-> {}]]
    /\ cancelled = [p \in Procs |-> FALSE]
    /\ phase = [p \in Procs |-> IF p = "lone" THEN "timer" ELSE "off"]
    /\ polls = [p \in Procs |-> IF p = "lone" THEN 1 ELSE 0]
    /\ pending = [p \in Procs |-> {}]
    /\ curFiles = [p \in Procs |-> <<>>]
    /\ immediates = [p \in Procs |-> <<>>]
    /\ status = [p \in Procs |-> "running"]
    /\ fired = [p \in Procs |-> ZeroCount]
    /\ firedSinceGone = [p \in Procs |-> ZeroCount]
    /\ polled = [p \in Procs |-> FALSE]
    /\ changes = 0
    /\ removed = {}
    /\ added = {}
    /\ bornLate = {}
    /\ listed = [n \in FileNames |-> "never"]
    /\ NoHandoff
    /\ NoSignFile /\ StartupDone

\* What a deletion of the entry and what a listing that returns the entry
\* make of listed[n].
AfterDeletion(l) == IF l \in {"current", "again"} THEN "earlier" ELSE l
AfterListing(l) ==
    CASE l = "never" -> "current"
      [] l = "earlier" -> "again"
      [] OTHER -> l

LoneReaddir ==
    /\ WatchReaddir("lone")
    /\ listed' = [n \in FileNames |->
                    IF fs["dir"][n] # "none" THEN AfterListing(listed[n])
                    ELSE listed[n]]
    /\ UNCHANGED <<qvars, fs, bvars, avars, cvars, changes, atStart, removed,
                   added, bornLate>>

LoneReaddirError ==
    /\ WatchReaddirError("lone")
    /\ UNCHANGED <<qvars, fs, hvars, bvars, avars, cvars>>

LoneStat ==
    /\ \E n \in FileNames : WatchStat("lone", n)
    /\ UNCHANGED <<qvars, fs, hvars, bvars, avars, cvars>>

LoneDiff ==
    /\ WatchDiff("lone")
    /\ UNCHANGED <<qvars, fs, hvars, bvars, avars, cvars>>

LoneCallback ==
    /\ TakeImmediate("lone")
    /\ UNCHANGED <<qvars, fs, hvars, bvars, avars, cvars, fireInitially, polls, prevFiles, cancelled, phase,
                   pending, curFiles, status, polled>>

LoneDispose ==
    /\ status["lone"] = "running"
    /\ ~cancelled["lone"]
    /\ Dispose("lone")
    /\ UNCHANGED <<qvars, fs, hvars, bvars, avars, cvars, fireInitially, polls, prevFiles, phase, pending,
                   curFiles, immediates, status, fired, firedSinceGone, polled>>

EnvCreate ==
    /\ changes < MaxChanges
    /\ \E n \in LoneNames : \E kind \in {"dir", "linkdir", "unsigned"} :
          /\ fs["dir"][n] = "none"
          /\ fs' = [fs EXCEPT !["dir"][n] = kind]
          /\ added' = IF IsFile(kind) THEN added \cup {n} ELSE added
          /\ bornLate' = IF IsFile(kind) /\ cancelled["lone"]
                         THEN bornLate \cup {n} ELSE bornLate
    /\ UNCHANGED listed
    /\ changes' = changes + 1
    /\ UNCHANGED <<qvars, wvars, avars, cvars, bvars, atStart, removed>>

EnvDelete ==
    /\ changes < MaxChanges
    /\ \E n \in FileNames :
          /\ fs["dir"][n] # "none"
          /\ fs' = [fs EXCEPT !["dir"][n] = "none"]
          /\ removed' = removed \cup {n}
          /\ listed' = [listed EXCEPT ![n] = AfterDeletion(@)]
    /\ changes' = changes + 1
    /\ UNCHANGED <<qvars, wvars, avars, cvars, bvars, atStart, added, bornLate>>

LoneNext ==
    \/ LoneReaddir \/ LoneStat \/ LoneDiff \/ LoneCallback \/ LoneDispose
    \/ EnvCreate \/ EnvDelete \/ LoneReaddirError
LoneSpec == LoneInit /\ [][LoneNext]_vars
\* The event loop keeps running: every fs operation issued calls back, every
\* timer and every setImmediate callback runs.
FairLoneSpec ==
    /\ LoneSpec
    /\ WF_vars(LoneReaddir \/ LoneReaddirError)
    /\ WF_vars(LoneStat) /\ WF_vars(LoneDiff) /\ WF_vars(LoneCallback)

\* ------------------------------------------------------------------------
\* moveFileToDir (helpers.js)
\* ------------------------------------------------------------------------
\* fs.rename(filepath, newpath) with newpath = path.join(destDir,
\* path.basename(filepath)): it fails when filepath does not exist, and
\* otherwise replaces whatever newpath held.
Exists(path) == fs[Dirname(path)][Basename(path)] # "none"
RenameFails(filepath) == ~Exists(filepath)
NewPathRenamed(filepath, destDir) == PathJoin(destDir, "a.exe")
NewPath(filepath, destDir) == PathJoin(destDir, Basename(filepath))
AfterCopy(filepath, destDir) ==
    [d \in Dirs |-> [n \in FileNames |->
        IF PathJoin(d, n) = NewPath(filepath, destDir)
        THEN fs[Dirname(filepath)][Basename(filepath)]
        ELSE fs[d][n]]]
AfterRename(filepath, destDir) ==
    [d \in Dirs |-> [n \in FileNames |->
        IF PathJoin(d, n) = NewPath(filepath, destDir)
        THEN fs[Dirname(filepath)][Basename(filepath)]
        ELSE IF PathJoin(d, n) = filepath THEN "none" ELSE fs[d][n]]]

\* ------------------------------------------------------------------------
\* The signing service
\* ------------------------------------------------------------------------
\* line 64: `path.extname(basename) === '.exe'`
IsAnyName(basename) == TRUE
IsExecutable(basename) == ExtName(basename) = ".exe"

\* The callback given to watchDir(INPUT_DIR, true, ...), lines 62-72: for a
\* name with the extension .exe, fs.access is issued for its path.
AgentCallback ==
    /\ TakeImmediate("agent")
    /\ LET basename == Head(immediates["agent"]) IN
         accessing' = IF IsExecutable(basename)
                      THEN [accessing EXCEPT ![basename] = @ + 1]
                      ELSE accessing
    /\ reportOrder' = Append(reportOrder, Head(immediates["agent"]))
    /\ UNCHANGED <<qvars, fs, hvars, bvars, cvars, accessLost, signFailed, moves,
                   served, fireInitially, polls,
                   prevFiles, cancelled, phase, pending, curFiles, status, polled>>

\* fs.access(filepath, R_OK) calls back, lines 68-70: without an error the
\* file is added to the queue under its path.
AgentAccess ==
    /\ status["agent"] = "running"
    /\ \E basename \in FileNames :
          /\ accessing[basename] > 0
          /\ accessing' = [accessing EXCEPT ![basename] = @ - 1]
          /\ IF fs["in"][basename] # "none"
             THEN /\ QueueAdd(PathJoin("in", basename), PathJoin("in", basename))
                  /\ UNCHANGED accessLost
             ELSE /\ accessLost' = accessLost \cup {basename}
                  /\ UNCHANGED qvars
    /\ UNCHANGED <<fs, wvars, hvars, bvars, cvars, reportOrder, signFailed, moves,
                   served>>

\* The chained handleFile is called once the previous job's promise settled.
AgentReact ==
    /\ status["agent"] = "running"
    /\ \E i \in 1..Len(ops) : QueueReact(i)
    /\ UNCHANGED <<fs, wvars, hvars, bvars, avars, cvars>>

\* handleFile, line 85: the catch at the end of the chain logs the error, so
\* the promise handleFile returned is fulfilled.
UncaughtState(err) == "rejected"
CaughtState(err) == "fulfilled"

\* signtool ends (signFile, lines 94-122, and handleFile, lines 82-85). It
\* signs the file in place. On success handleFile goes on to moveFileToDir;
\* on an error the catch logs it and handleFile's promise is fulfilled.
\* handleFile, lines 82-85: a rejection of signFile skips the then-handlers,
\* moveFileToDir among them, and ends in the catch.
SignRejectedMoves(err) == "moving"
SignRejected(err) == CaughtState(err)

AgentSign(ok) ==
    /\ status["agent"] = "running"
    /\ \E i \in 1..Len(ops) :
          /\ ops[i].state = "running"
          /\ IF ok /\ Exists(ops[i].fn)
             THEN /\ fs' = [fs EXCEPT !["in"][Basename(ops[i].fn)] = "signed"]
                  /\ ops' = [ops EXCEPT ![i].state = "moving"]
                  /\ UNCHANGED signFailed
             ELSE /\ ops' = [ops EXCEPT ![i].state = SignRejected("signtool")]
                  /\ signFailed' = signFailed \cup {i}
                  /\ UNCHANGED fs
    /\ UNCHANGED <<names, tail, wvars, hvars, bvars, cvars, accessing, accessLost,
                   reportOrder, moves, served>>

\* The rename into OUTPUT_DIR calls back (handleFile, lines 83-85): done, or
\* an error the catch logs; handleFile's promise is fulfilled either way.
AgentMove ==
    /\ status["agent"] = "running"
    /\ \E i \in 1..Len(ops) :
          /\ ops[i].state = "moving"
          /\ IF RenameFails(ops[i].fn)
             THEN /\ ops' = [ops EXCEPT ![i].state = CaughtState("rename")]
                  /\ UNCHANGED <<fs, moves, served>>
             ELSE /\ fs' = AfterRename(ops[i].fn, "out")
                  /\ ops' = [ops EXCEPT ![i].state = "fulfilled"]
                  /\ moves' = moves \cup {<<ops[i].fn, NewPath(ops[i].fn, "out")>>}
                  /\ served' = (served \/ Basename(ops[i].fn) = Basename(IN_FILE))
    /\ UNCHANGED <<names, tail, wvars, hvars, bvars, cvars, accessing, accessLost,
                   reportOrder, signFailed>>

AgentReaddir ==
    /\ WatchReaddir("agent")
    /\ UNCHANGED <<qvars, fs, hvars, bvars, avars, cvars>>

AgentStat ==
    /\ \E n \in FileNames : WatchStat("agent", n)
    /\ UNCHANGED <<qvars, fs, hvars, bvars, avars, cvars>>

AgentDiff ==
    /\ WatchDiff("agent")
    /\ UNCHANGED <<qvars, fs, hvars, bvars, avars, cvars>>

\* ------------------------------------------------------------------------
\* The osslsigncode replacement
\* ------------------------------------------------------------------------
\* criticalError (helpers.js): the state of the process after the call.
criticalErrorLogs(err) == "running"
criticalError(err) == "exit 666"

\* line 54: the catch of the rm step only logs; the process goes on.
RmErrorFatal(err) == criticalError(err)
RmErrorLogged(err) == "running"

\* The rename of IN_FILE into INPUT_DIR calls back (line 75): an error goes
\* to criticalError, which ends the process with status 666.
ClientMove(ok) ==
    /\ status["client"] = "running"
    /\ clientMove = "pending"
    /\ IF ok /\ ~RenameFails(IN_FILE)
       THEN /\ fs' = AfterRename(IN_FILE, "in")
            /\ clientMove' = "done"
            /\ UNCHANGED status
       ELSE /\ clientMove' = "failed"
            /\ status' = [status EXCEPT !["client"] = criticalError("rename")]
            /\ UNCHANGED fs
    /\ UNCHANGED <<qvars, hvars, bvars, avars, resolved, retrieved, outFile, handoffs,
                   fireInitially, polls, prevFiles, cancelled, phase, pending,
                   curFiles, immediates, fired, firedSinceGone, polled>>

\* line 67: `if (basename === origname)`
IsAnyBasename(basename) == TRUE
IsOrigName(basename) == basename = Basename(IN_FILE)

\* The callback given to watchDir(OUTPUT_DIR, false, ...), lines 66-71.
ClientCallback ==
    /\ TakeImmediate("client")
    /\ LET basename == Head(immediates["client"]) IN
         IF IsOrigName(basename)
         THEN /\ Dispose("client")
              /\ resolved' = IF resolved = "" THEN PathJoin("out", basename)
                             ELSE resolved
         ELSE UNCHANGED <<cancelled, resolved>>
    /\ UNCHANGED <<qvars, fs, hvars, bvars, avars, clientMove, retrieved, outFile,
                   handoffs, fireInitially, polls, prevFiles, phase, pending, curFiles, status,
                   polled>>

\* The then-handler of lines 43-57: cp, whose failure goes to criticalError,
\* then rm, whose failure is only logged.
ClientRetrieve(cpOk, rmOk) ==
    /\ status["client"] = "running"
    /\ resolved # ""
    /\ ~retrieved
    /\ retrieved' = TRUE
    /\ IF cpOk /\ Exists(resolved)
       THEN /\ outFile' = fs["out"][Basename(resolved)]
            /\ IF rmOk
               THEN /\ fs' = [fs EXCEPT !["out"][Basename(resolved)] = "none"]
                    /\ UNCHANGED status
               ELSE /\ status' = [status EXCEPT !["client"] = RmErrorLogged("rm")]
                    /\ UNCHANGED fs
       ELSE /\ status' = [status EXCEPT !["client"] = criticalError("cp")]
            /\ UNCHANGED <<outFile, fs>>
    /\ UNCHANGED <<qvars, hvars, bvars, avars, clientMove, resolved, handoffs,
                   fireInitially, polls,
                   prevFiles, cancelled, phase, pending, curFiles, immediates,
                   fired, firedSinceGone, polled>>

\* fulfill (line 69) queues the then-handler of lines 43-57 as a microtask,
\* which runs before the event loop takes the next timer: the client's next
\* readdir starts after the handler has run.
ThenPending == resolved # "" /\ ~retrieved

ClientReaddir ==
    /\ ~ThenPending
    /\ WatchReaddir("client")
    /\ UNCHANGED <<qvars, fs, hvars, bvars, avars, cvars>>

ClientStat ==
    /\ \E n \in FileNames : WatchStat("client", n)
    /\ UNCHANGED <<qvars, fs, hvars, bvars, avars, cvars>>

ClientDiff ==
    /\ WatchDiff("client")
    /\ UNCHANGED <<qvars, fs, hvars, bvars, avars, cvars>>

\* --- the handoff: the signing service has just started watching `in`; the
\* osslsigncode replacement has just called signWindowsExecutable(IN_FILE):
\* its watcher's first readdir and the rename into `in` are in flight.
HandoffStart(inDir, outDir) ==
    /\ QueueInit
    /\ fs = [EmptyDirs EXCEPT !["in"] = inDir, !["out"] = outDir,
                              !["build"][Basename(IN_FILE)] = "unsigned"]
    /\ fireInitially = [p \in Procs |-> p = "agent"]
    /\ prevFiles = [p \in Procs |-> InitPrevFiles(p = "agent")]
    /\ cancelled = [p \in Procs |-> FALSE]
    /\ phase = [p \in Procs |-> IF p = "lone" THEN "off" ELSE "timer"]
    /\ polls = [p \in Procs |-> IF p = "lone" THEN 0 ELSE 1]
    /\ pending = [p \in Procs |-> {}]
    /\ curFiles = [p \in Procs |-> <<>>]
    /\ immediates = [p \in Procs |-> <<>>]
    /\ status = [p \in Procs |-> "running"]
    /\ fired = [p \in Procs |-> ZeroCount]
    /\ firedSinceGone = [p \in Procs |-> ZeroCount]
    /\ polled = [p \in Procs |-> FALSE]
    /\ NoHistory
    /\ accessing = [n \in FileNames |-> 0]
    /\ accessLost = {}
    /\ reportOrder = <<>>
    /\ signFailed = {}
    /\ moves = {}
    /\ served = FALSE
    /\ clientMove = "pending"
    /\ resolved = ""
    /\ retrieved = FALSE
    /\ outFile = "none"
    /\ handoffs = 1
    /\ NoSignFile /\ StartupDone

\* `out` empty, `in` empty or holding an executable left there earlier; every
\* rename, cp and rm succeeding, signtool succeeding, nothing else touching
\* the directories.
HandoffInit ==
    \E left \in {"none", "unsigned"} :
        HandoffStart([EmptyDirs["in"] EXCEPT !["b.exe"] = left], EmptyDirs["out"])
HandoffNext ==
    \/ AgentReaddir \/ AgentStat \/ AgentDiff \/ AgentCallback \/ AgentAccess
    \/ AgentReact \/ AgentSign(TRUE) \/ AgentMove
    \/ ClientMove(TRUE) \/ ClientReaddir \/ ClientStat \/ ClientDiff
    \/ ClientCallback \/ ClientRetrieve(TRUE, TRUE)
HandoffSpec == HandoffInit /\ [][HandoffNext]_vars
\* Each process keeps running its event loop, every fs operation issued
\* completes, and signtool ends.
FairHandoffSpec ==
    /\ HandoffSpec
    /\ WF_vars(AgentReaddir) /\ WF_vars(AgentStat) /\ WF_vars(AgentDiff)
    /\ WF_vars(AgentCallback) /\ WF_vars(AgentAccess) /\ WF_vars(AgentReact)
    /\ WF_vars(AgentSign(TRUE)) /\ WF_vars(AgentMove)
    /\ WF_vars(ClientMove(TRUE)) /\ WF_vars(ClientReaddir) /\ WF_vars(ClientStat)
    /\ WF_vars(ClientDiff) /\ WF_vars(ClientCallback)
    /\ WF_vars(ClientRetrieve(TRUE, TRUE))

\* The same with a file in `in` that is not an executable.
FilterInit ==
    \E left \in {"none", "unsigned"} :
        HandoffStart([EmptyDirs["in"] EXCEPT !["b.exe"] = left,
                                             !["c.txt"] = "unsigned"],
                     EmptyDirs["out"])
FilterSpec == FilterInit /\ [][HandoffNext]_vars

\* The same, signtool being a program that may never end: execFile is called
\* without a timeout (signFile, line 115), so nothing makes its callback run.
FairHungSpec ==
    /\ HandoffSpec
    /\ WF_vars(AgentReaddir) /\ WF_vars(AgentStat) /\ WF_vars(AgentDiff)
    /\ WF_vars(AgentCallback) /\ WF_vars(AgentAccess) /\ WF_vars(AgentReact)
    /\ WF_vars(AgentMove)
    /\ WF_vars(ClientMove(TRUE)) /\ WF_vars(ClientReaddir) /\ WF_vars(ClientStat)
    /\ WF_vars(ClientDiff) /\ WF_vars(ClientCallback)
    /\ WF_vars(ClientRetrieve(TRUE, TRUE))

\* --- the handoff with failures: `in` may hold a leftover executable and
\* `out` a stale file of the handed-off name; signtool, the client's rename,
\* cp and rm may fail; somebody may delete files from `in`.
SysDeleteIn ==
    /\ changes < MaxChanges
    /\ \E n \in FileNames :
          /\ fs["in"][n] # "none"
          /\ fs' = [fs EXCEPT !["in"][n] = "none"]
    /\ changes' = changes + 1
    /\ UNCHANGED <<qvars, wvars, avars, cvars, bvars, atStart, removed, added,
                   bornLate, listed>>

SysInit ==
    \E left \in {"none", "unsigned"} : \E stale \in {"none", "old"} :
        HandoffStart([EmptyDirs["in"] EXCEPT !["b.exe"] = left],
                     [EmptyDirs["out"] EXCEPT ![Basename(IN_FILE)] = stale])
SysNext ==
    \/ AgentReaddir \/ AgentStat \/ AgentDiff \/ AgentCallback \/ AgentAccess
    \/ AgentReact \/ AgentMove
    \/ \E ok \in BOOLEAN : AgentSign(ok)
    \/ \E ok \in BOOLEAN : ClientMove(ok)
    \/ ClientReaddir \/ ClientStat \/ ClientDiff \/ ClientCallback
    \/ \E cpOk, rmOk \in BOOLEAN : ClientRetrieve(cpOk, rmOk)
    \/ SysDeleteIn
SysSpec == SysInit /\ [][SysNext]_vars

\* --- successive handoffs: electron-builder runs the osslsigncode
\* replacement again, for a new executable with the same path, once the
\* previous run has finished successfully. The new process calls
\* signWindowsExecutable(IN_FILE): a new watcher of `out`, whose first readdir
\* is in flight, and the rename into `in` in flight.
ClientRestart ==
    /\ handoffs < MaxHandoffs
    /\ status["client"] = "running"
    /\ retrieved
    /\ phase["client"] = "off"
    /\ handoffs' = handoffs + 1
    /\ fs' = [fs EXCEPT !["build"][Basename(IN_FILE)] = "unsigned"]
    /\ prevFiles' = [prevFiles EXCEPT !["client"] = InitPrevFiles(FALSE)]
    /\ cancelled' = [cancelled EXCEPT !["client"] = FALSE]
    /\ phase' = [phase EXCEPT !["client"] = "timer"]
    /\ polls' = [polls EXCEPT !["client"] = 1]
    /\ pending' = [pending EXCEPT !["client"] = {}]
    /\ curFiles' = [curFiles EXCEPT !["client"] = <<>>]
    /\ immediates' = [immediates EXCEPT !["client"] = <<>>]
    /\ fired' = [fired EXCEPT !["client"] = ZeroCount]
    /\ firedSinceGone' = [firedSinceGone EXCEPT !["client"] = ZeroCount]
    /\ polled' = [polled EXCEPT !["client"] = FALSE]
    /\ clientMove' = "pending"
    /\ resolved' = ""
    /\ retrieved' = FALSE
    /\ served' = FALSE
    /\ UNCHANGED <<qvars, hvars, bvars, fireInitially, status, outFile, accessing,
                   accessLost, reportOrder, signFailed, moves>>

\* `in` and `out` empty at first; every rename, cp and rm succeeding, signtool
\* succeeding, nothing else touching the directories.
ServiceInit == HandoffStart(EmptyDirs["in"], EmptyDirs["out"])
ServiceNext == HandoffNext \/ ClientRestart
ServiceSpec == ServiceInit /\ [][ServiceNext]_vars
FairServiceSpec ==
    /\ ServiceSpec
    /\ WF_vars(AgentReaddir) /\ WF_vars(AgentStat) /\ WF_vars(AgentDiff)
    /\ WF_vars(AgentCallback) /\ WF_vars(AgentAccess) /\ WF_vars(AgentReact)
    /\ WF_vars(AgentSign(TRUE)) /\ WF_vars(AgentMove)
    /\ WF_vars(ClientMove(TRUE)) /\ WF_vars(ClientReaddir) /\ WF_vars(ClientStat)
    /\ WF_vars(ClientDiff) /\ WF_vars(ClientCallback)
    /\ WF_vars(ClientRetrieve(TRUE, TRUE)) /\ WF_vars(ClientRestart)

\* ------------------------------------------------------------------------
\* signFile (signing service)
\* ------------------------------------------------------------------------
\* Strings are sequences of characters where the code looks inside them.
Chars == {".", "/", "p", "f", "x"}
CertNames == UNION {[1..k -> Chars] : k \in 0..MaxCertLen}
RECURSIVE Join(_)
Join(cs) == IF cs = <<>> THEN "" ELSE Head(cs) \o Join(Tail(cs))

\* path.extname(p): trailing separators are dropped; in the last component,
\* the part from its last dot on; "" when there is no dot, when the last dot
\* is the first character of the component, or when the component is "..".
RECURSIVE DropTrailingSep(_)
DropTrailingSep(cs) ==
    IF cs # <<>> /\ cs[Len(cs)] = "/"
    THEN DropTrailingSep(SubSeq(cs, 1, Len(cs) - 1))
    ELSE cs
LastIndexOf(c, cs) ==
    IF \E i \in 1..Len(cs) : cs[i] = c
    THEN CHOOSE i \in 1..Len(cs) :
            cs[i] = c /\ \A j \in (i + 1)..Len(cs) : cs[j] # c
    ELSE 0
LastComponent(cs) ==
    LET t == DropTrailingSep(cs) IN SubSeq(t, LastIndexOf("/", t) + 1, Len(t))
PathExtName(cs) ==
    LET base == LastComponent(cs)
        dot == LastIndexOf(".", base)
    IN IF dot <= 1 \/ base = <<".", ".">>
       THEN <<>>
       ELSE SubSeq(base, dot, Len(base))

\* lines 102-110: the option pushed before CERT_NAME.
SelectorAlwaysName(cert) == "/n"
Selector(cert) ==
    IF PathExtName(cert) = <<".", "p", "f", "x">> THEN "/f" ELSE "/n"

\* lines 96-114: the argument list; an empty CERT_NAME is falsy.
SignFileArgs(cert, filepath) ==
    <<"sign", "/tr", "http://timestamp.digicert.com", "/td", "sha256",
      "/fd", "sha256">>
    \o (IF cert # <<>> THEN <<Selector(cert), Join(cert)>> ELSE <<"/a">>)
    \o <<filepath>>

\* signFile(filepath) for one file and one value of --certificate.
SignFileInit ==
    /\ QueueInit /\ fs = EmptyDirs /\ NoWatcher /\ NoHistory /\ NoHandoff
    /\ StartupDone
    /\ certName \in CertNames
    /\ signPath \in {PathJoin("in", "a.exe"), PathJoin("in", "b.exe")}
    /\ signArgs = <<>>

\* line 115: execFile(signTool, args, ...)
SignFileCall ==
    /\ signArgs = <<>>
    /\ signArgs' = SignFileArgs(certName, signPath)
    /\ UNCHANGED <<qvars, fs, wvars, hvars, avars, cvars, certName, signPath,
                   pc, dirState, world, exitLog>>

SignFileSpec == SignFileInit /\ [][SignFileCall]_vars

\* ========================================================================
\* Properties
\* ========================================================================

\* C2 (dedup key suppression): once add was called with a non-empty name,
\* every later add with the same name is discarded: its operation is neither
\* run nor chained.
C2_DedupKeySuppression ==
    \A i, j \in 1..Len(ops) :
        (i < j /\ ops[i].name # NoName /\ ops[j].name = ops[i].name)
            => ops[j].state = "discarded"

\* C3 (queue ordering): operations added without a name run one after another
\* in submission order: a later one has not started unless every earlier one
\* has run and settled.
C3_QueueOrdering ==
    \A i, j \in 1..Len(ops) :
        (i < j /\ ops[i].name = NoName /\ ops[j].name = NoName /\ Started(j))
            => ops[i].state \in {"fulfilled", "rejected"}

\* Three unnamed operations, the first two completed, the third running.
C3_Witness ==
    /\ Len(ops) >= 3
    /\ \A i \in 1..3 : ops[i].name = NoName
    /\ ops[1].state = "fulfilled"
    /\ ops[2].state = "fulfilled"
    /\ ops[3].state = "running"

\* C4 (queue failure isolation): a failed operation does not halt the chain:
\* no operation the queue accepted is passed over (a "skipped" operation is
\* never started: no step leads out of that state).
C4_FailureIsolation ==
    \A i \in 1..Len(ops) : Accepted(i) => ops[i].state # "skipped"

\* C5 (no duplicate callback): for a watcher started with fireInitially =
\* false, not disposed of, while nothing is deleted: no callback for a file
\* present when watchDir was called, at most one for a file created since,
\* and exactly one once that file is in the watcher's snapshot and no callback
\* for it is queued any more.
C5_NoDuplicateCallback ==
    (~fireInitially["lone"] /\ ~cancelled["lone"] /\ removed = {})
        => \A n \in FileNames :
              /\ n \in atStart => fired["lone"][n] = 0
              /\ n \in added => fired["lone"][n] <= 1
              /\ (n \in added /\ n \in prevFiles["lone"].keys
                    /\ n \notin Range(immediates["lone"]))
                        => fired["lone"][n] = 1

\* C6 (at most one callback per appearance): cb is not invoked twice for a
\* name without a completed poll in between whose snapshot lacked the name,
\* and with fireInitially = false it is not invoked for a file that was
\* present when watchDir was called and has stayed.
C6_OncePerAppearance ==
    \A n \in FileNames :
        /\ firedSinceGone["lone"][n] <= 1
        /\ (~fireInitially["lone"] /\ n \in atStart \ removed)
              => fired["lone"][n] = 0

\* A name reported, seen gone by a poll, and reported again.
C6_Witness ==
    \E n \in FileNames :
        /\ fired["lone"][n] = 2
        /\ firedSinceGone["lone"][n] = 1

\* C7 (initial-fire semantics): with fireInitially = true and the directory
\* left as it was, once the first poll is over cb has been queued or invoked
\* for every regular file the directory held.
C7_InitialFire ==
    (fireInitially["lone"] /\ changes = 0 /\ polled["lone"])
        => \A n \in atStart :
              n \in Range(immediates["lone"]) \/ fired["lone"][n] >= 1

\* Both files of an untouched directory reported.
C7_Witness ==
    /\ fireInitially["lone"]
    /\ changes = 0
    /\ atStart = LoneNames
    /\ \A n \in LoneNames : fired["lone"][n] = 1

\* C8 (disposal stops future callbacks): a file created after the disposer was
\* called (nothing being deleted) gets no callback, queued or invoked.
C8_DisposalStopsCallbacks ==
    removed = {}
        => \A n \in bornLate :
              fired["lone"][n] = 0 /\ n \notin Range(immediates["lone"])

\* C9 (stat failure is tolerated): the process of the watcher does not die of
\* a failed fs.stat.
C9_StatFailureTolerated == status["lone"] # "TypeError"

\* C1 (round-trip handoff): once the client's rename put the file into `in`,
\* and as long as the signing service runs, the client's promise eventually
\* resolves with <out>/<basename of the file>.
C1_RoundTrip ==
    (clientMove = "done")
        ~> (\/ resolved = PathJoin("out", Basename(IN_FILE))
            \/ status["agent"] # "running")

\* The first half of C1 alone: the file eventually appears in `out` under its
\* basename, or has been there and was retrieved.
HandoffReachesOut ==
    (clientMove = "done")
        ~> (\/ fs["out"][Basename(IN_FILE)] = "signed"
            \/ outFile = "signed"
            \/ status["agent"] # "running")

\* How many jobs the queue was given for in/n.
Enqueued(n) == Cardinality({i \in 1..Len(ops) : ops[i].fn = PathJoin("in", n)})

\* The first half of C10 alone: a file reported once whose readability check
\* failed is not enqueued.
LostIsNotEnqueued ==
    \A n \in accessLost : fired["agent"][n] = 1 => Enqueued(n) = 0

\* C10 (deletion-during-detection race): a reported .exe file that is gone
\* when fs.access runs is not enqueued, and the signing service keeps running.
C10_DeletionRace ==
    /\ LostIsNotEnqueued
    /\ accessLost # {} => status["agent"] = "running"

\* The jobs whose handleFile has been called and has not settled.
InProgress == {i \in 1..Len(ops) : ops[i].state \in {"running", "moving"}}

\* C11 (one-at-a-time signing): at most one handleFile job of the signing
\* service is in progress at any time.
C11_OneAtATime == Cardinality(InProgress) <= 1

\* Two files reported by the same poll, both enqueued: the job of one in
\* progress, the job of the other waiting for it.
C11_Witness ==
    /\ Len(ops) = 2
    /\ ops[1].fn # ops[2].fn
    /\ ops[1].state = "running"
    /\ ops[2].state = "waiting"
    /\ Len(reportOrder) = 2
    /\ prevFiles["agent"].keys = {Basename(ops[1].fn), Basename(ops[2].fn)}

\* The position of the first report of the file of a job.
FirstReport(i) ==
    CHOOSE k \in 1..Len(reportOrder) :
        /\ reportOrder[k] = Basename(ops[i].fn)
        /\ \A m \in 1..(k - 1) : reportOrder[m] # Basename(ops[i].fn)

\* C12 (signing order): jobs are started in the order in which the watcher
\* reported their files: of two jobs, the one that is started first (jobs start
\* in the order of ops) is the one whose file was reported first.
C12_SigningOrder ==
    \A i, j \in 1..Len(ops) :
        (i < j /\ Started(j)) => FirstReport(i) < FirstReport(j)

\* C13 (per-job failure isolation in the service): a job whose signtool run
\* failed is settled without being run again, the promise of no job is
\* rejected, and no job is passed over.
C13_JobFailureIsolation ==
    /\ \A i \in signFailed : ops[i].state = "fulfilled"
    /\ \A i \in 1..Len(ops) : ops[i].state \notin {"rejected", "skipped"}
    /\ \A i \in signFailed :
          Cardinality({j \in 1..Len(ops) : ops[j].fn = ops[i].fn}) <= 1

\* signtool failed for the first job; the service runs, and the job queued
\* behind it was signed and relocated.
C13_Witness ==
    /\ Len(ops) = 2
    /\ signFailed = {1}
    /\ ops[2].state = "fulfilled"
    /\ <<ops[2].fn, NewPath(ops[2].fn, "out")>> \in moves
    /\ status["agent"] = "running"

\* C14 (handoff resolution): whenever the handed-off name is in `out` (which
\* was empty when signWindowsExecutable was called), the client eventually has
\* disposed of its watcher and resolved with the path of the file in `out`.
C14_HandoffResolution ==
    (fs["out"][Basename(IN_FILE)] # "none")
        ~> (cancelled["client"] /\ resolved = PathJoin("out", Basename(IN_FILE)))

\* C15 (stale output is not a signature): the client does not resolve for a
\* file that was in `out` when the handoff started: while the promise is
\* resolved and not yet acted upon, `out` holds the file the service
\* relocated, and what is copied to OUT_FILE is never the stale file.
C15_StaleNotResolved ==
    /\ (resolved # "" /\ ~retrieved) => fs["out"][Basename(IN_FILE)] = "signed"
    /\ outFile # "old"
    /\ fs["out"][Basename(IN_FILE)] = "old" => resolved = ""

\* The stale file listed by the client's first poll and not reported.
C15_Witness ==
    /\ fs["out"][Basename(IN_FILE)] = "old"
    /\ polled["client"]
    /\ Basename(IN_FILE) \in prevFiles["client"].keys
    /\ immediates["client"] = <<>>
    /\ fired["client"][Basename(IN_FILE)] = 0

\* The file in/n was handed to signtool: handleFile was called for it.
HandedToSigntool(n) ==
    \E i \in 1..Len(ops) : ops[i].fn = PathJoin("in", n) /\ Started(i)

\* C16 (leftover pickup): an executable that is in `in` when the signing
\* service starts is eventually enqueued and handed to signtool.
C16_LeftoverPickup ==
    (fs["in"]["b.exe"] = "unsigned" /\ ops = <<>>) ~> HandedToSigntool("b.exe")

\* C16 without the death of the service: the leftover is eventually handed to
\* signtool, or the service has died.
LeftoverPickupWhileRunning ==
    (fs["in"]["b.exe"] = "unsigned" /\ ops = <<>>)
        ~> (HandedToSigntool("b.exe") \/ status["agent"] # "running")

\* C17 (repeated service): every handoff whose file was put into `in` is
\* eventually signed and relocated to `out`, as long as the signing service
\* runs.
C17_RepeatedService ==
    (clientMove = "done") ~> (served \/ status["agent"] # "running")

\* C17 for the first handoff alone.
FirstHandoffServed ==
    (clientMove = "done" /\ handoffs = 1)
        ~> (served \/ status["agent"] # "running")

\* C18 (signed before relocated, same basename): `out` never holds an
\* unsigned file; every rename the service made went from `in` to `out` under
\* the same basename, for a job whose signtool run had not failed; and a job
\* is relocating only while its file in `in` is signed or already gone.
C18_SignedBeforeRelocated ==
    /\ \A n \in FileNames : fs["out"][n] # "unsigned"
    /\ \A m \in moves :
          /\ Dirname(m[1]) = "in"
          /\ Dirname(m[2]) = "out"
          /\ Basename(m[2]) = Basename(m[1])
          /\ \E i \in 1..Len(ops) \ signFailed :
                ops[i].fn = m[1] /\ ops[i].state = "fulfilled"
    /\ \A i \in 1..Len(ops) :
          ops[i].state = "moving"
              => fs["in"][Basename(ops[i].fn)] \in {"signed", "none"}

\* The leftover b.exe signed and relocated to out/b.exe.
C18_Witness ==
    /\ <<PathJoin("in", "b.exe"), PathJoin("out", "b.exe")>> \in moves
    /\ fs["out"]["b.exe"] = "signed"
    /\ fs["in"]["b.exe"] = "none"

\* C19 (placement failure is fatal): when the rename into `in` failed, the
\* client's process has ended with status 666, without having resolved.
C19_PlacementFailureFatal ==
    clientMove = "failed"
        => /\ status["client"] = "exit 666"
           /\ resolved = ""
           /\ ~retrieved
           /\ outFile = "none"

\* The rename failed after the client's watcher had completed a poll.
C19_Witness ==
    /\ clientMove = "failed"
    /\ polled["client"]

\* C20 (copy, then best-effort delete): once the then-handler has run, the
\* process has ended with status 666 exactly when the copy failed (OUT_FILE
\* was not written); otherwise OUT_FILE holds the signed file and the process
\* goes on, whether or not the file was deleted from `out`.
C20_CopyThenDelete ==
    retrieved
        => /\ status["client"] = "exit 666" <=> outFile = "none"
           /\ status["client"] = "running" <=> outFile = "signed"
           /\ status["client"] \in {"running", "exit 666"}

\* The copy done, the deletion failed, the process running.
C20_Witness ==
    /\ retrieved
    /\ outFile = "signed"
    /\ fs["out"][Basename(IN_FILE)] = "signed"
    /\ status["client"] = "running"

\* C21 (listing failure is fatal): once fs.readdir has reported an error, the
\* process of the watcher is dead, no stat is outstanding and no callback is
\* queued, and from then on the watcher's state does not change: no callback
\* is invoked and no poll is scheduled.
C21_ListingFailureFatal ==
    /\ [](phase["lone"] = "failed"
            => /\ status["lone"] # "running"
               /\ pending["lone"] = {}
               /\ immediates["lone"] = <<>>)
    /\ [][phase["lone"] = "failed" => UNCHANGED wvars]_vars

\* The listing failed after a poll that had reported a file.
C21_Witness ==
    /\ phase["lone"] = "failed"
    /\ polled["lone"]
    /\ \E n \in FileNames : fired["lone"][n] = 1

\* Polling has stopped: nothing is scheduled or in flight, or the process is
\* dead.
PollingStopped(p) == phase[p] \in {"off", "failed"} \/ status[p] # "running"

\* C22 (disposer semantics): once the disposer was called no poll is scheduled
\* any more (the one scheduled or in flight completes), and polling
\* eventually stops.
C22_DisposerSemantics ==
    /\ [][cancelled["lone"] =>
            (phase'["lone"] = "timer" => phase["lone"] = "timer")]_vars
    /\ cancelled["lone"] ~> PollingStopped("lone")

\* The disposer was called while a poll was in flight; that poll completed
\* and nothing is scheduled.
C22_Witness ==
    /\ cancelled["lone"]
    /\ phase["lone"] = "off"
    /\ status["lone"] = "running"
    /\ polled["lone"]

\* The state of the i-th job given to the queue, "none" before it is given.
JobState(i) == IF i <= Len(ops) THEN ops[i].state ELSE "none"

\* C23 (signing timeout): also when signtool does not end by itself, a job
\* does not stay in its signtool run for ever and a job queued behind it does
\* not wait for ever (as long as the signing service runs).
C23_SigningTimeout ==
    \A i \in 1..Cardinality(FileNames) :
        /\ (JobState(i) = "running")
              ~> (JobState(i) # "running" \/ status["agent"] # "running")
        /\ (JobState(i) = "waiting")
              ~> (JobState(i) # "waiting" \/ status["agent"] # "running")

\* C24 (extension filter): a file of `in` whose extension is not .exe never
\* reaches the queue, is never signed and is never moved.
C24_ExtensionFilter ==
    \A n \in FileNames :
        ExtName(n) # ".exe"
            => /\ Enqueued(n) = 0
               /\ accessing[n] = 0
               /\ n \notin accessLost
               /\ fs["in"][n] # "signed"
               /\ fs["out"][n] = "none"
               /\ \A m \in moves : Basename(m[1]) # n

\* c.txt was reported to the callback of the signing service and is where
\* it was, while an executable reported with it was signed and relocated.
C24_Witness ==
    /\ fired["agent"]["c.txt"] = 1
    /\ fs["in"]["c.txt"] = "unsigned"
    /\ fs["out"]["b.exe"] = "signed"

\* The certificate selectors among the arguments: /n or /f, not counting the
\* value that follows a selector.
Selectors(args) ==
    {i \in 1..Len(args) :
        /\ args[i] \in {"/n", "/f"}
        /\ ~(i > 1 /\ args[i - 1] \in {"/n", "/f"})}
\* The value ends in .pfx.
EndsInPfx(cert) ==
    /\ Len(cert) >= 4
    /\ SubSeq(cert, Len(cert) - 3, Len(cert)) = <<".", "p", "f", "x">>
\* The value names a file with the extension .pfx: after dropping trailing
\* separators it ends in .pfx, preceded by a character other than a separator.
NamesPfxFile(cert) ==
    \E k \in 5..Len(cert) :
        /\ SubSeq(cert, k - 3, k) = <<".", "p", "f", "x">>
        /\ cert[k - 4] # "/"
        /\ \A j \in (k + 1)..Len(cert) : cert[j] = "/"

C26_SnapshotInvariant ==
    /\ \A n \in FileNames \ (atStart \cup added) :
          /\ n \notin prevFiles["lone"].keys
          /\ n \notin Range(curFiles["lone"])
          /\ n \notin Range(immediates["lone"])
          /\ fired["lone"][n] = 0
    /\ (polled["lone"] /\ changes = 0)
          => /\ ~prevFiles["lone"].null
             /\ prevFiles["lone"].keys = {n \in FileNames : IsFile(fs["dir"][n])}

\* A poll of a directory holding a regular file and a link to a directory.
C26_Witness ==
    /\ polled["lone"]
    /\ changes = 0
    /\ \E n, m \in FileNames :
          /\ fs["dir"][n] = "linkdir"
          /\ fs["dir"][m] = "unsigned"
          /\ prevFiles["lone"].keys = {m}

\* ------------------------------------------------------------------------
\* Top-level code of the signing service (part_005:19-72) and of the builder
\* from its directory checks on (builder.js:409-439).

\* The candidates of findSignToolBinary, in the order they are tried.
Candidates == {1, 2, 3}
DirKinds == {"present", "absent", "blocked"}

\* What the two programs find when they start.
Worlds ==
    [platform : {"win32", "linux"}, shared : BOOLEAN, tools : SUBSET Candidates,
     builderShared : BOOLEAN, destination : BOOLEAN,
     in0 : DirKinds, out0 : DirKinds, dest0 : DirKinds]

\* fs.mkdirSync(dir): creates an absent directory, throws EEXIST on one that
\* exists and another error where it cannot create one.
MkdirCode(kind) ==
    CASE kind = "absent" -> "ok"
      [] kind = "present" -> "EEXIST"
      [] OTHER -> "EACCES"

\* `if (ex.code !== 'EEXIST')`
MkdirFatalAlways(code) == TRUE
MkdirFatal(code) == code # "EEXIST"

\* fs.accessSync(dir) returns for a directory that is there and throws
\* otherwise.
AccessSyncAny(kind) == TRUE
AccessSyncOk(kind) == kind = "present"

\* findSignToolBinary: the first candidate that fs.accessSync accepts, 0
\* (undefined) if there is none.
FirstCandidate(tools) ==
    IF tools = {} THEN 0 ELSE CHOOSE t \in tools : \A u \in tools : t <= u

Goto(prog, step) ==
    /\ pc' = [pc EXCEPT ![prog] = step]
    /\ exitLog' = exitLog

\* process.exit(n)
Exit(prog, reason, st) ==
    /\ pc' = [pc EXCEPT ![prog] = "exited"]
    /\ exitLog' = exitLog \cup {[prog |-> prog, reason |-> reason, status |-> st]}

\* A call whose result st is "running" returns to the caller, which carries
\* on with the next step; any other result is the exit of the process.
Fatal(prog, reason, st, step) ==
    IF st = "running" THEN Goto(prog, step) ELSE Exit(prog, reason, st)

\* part_005:19-22
AgentStartPlatform ==
    /\ pc["agent"] = "platform"
    /\ IF world.platform = "win32"
         THEN Goto("agent", "options")
         ELSE Exit("agent", "platform", "exit 1")
    /\ UNCHANGED <<qvars, fs, wvars, hvars, avars, cvars, certName, signPath,
                   signArgs, dirState, world>>

\* part_005:30-33
AgentStartOptions ==
    /\ pc["agent"] = "options"
    /\ IF world.shared
         THEN Goto("agent", "findSignTool")
         ELSE Exit("agent", "options", "exit 1")
    /\ UNCHANGED <<qvars, fs, wvars, hvars, avars, cvars, certName, signPath,
                   signArgs, dirState, world>>

\* part_005:44 and 130-145
AgentFindSignTool ==
    /\ pc["agent"] = "findSignTool"
    /\ IF FirstCandidate(world.tools) # 0
         THEN Goto("agent", "mkdirIn")
         ELSE Fatal("agent", "signtool", criticalError("not found"), "mkdirIn")
    /\ UNCHANGED <<qvars, fs, wvars, hvars, avars, cvars, certName, signPath,
                   signArgs, dirState, world>>

\* part_005:47-51 and 52-56
AgentMkdir(d, step, next) ==
    /\ pc["agent"] = step
    /\ LET code == MkdirCode(dirState[d])
       IN  IF code = "ok"
             THEN /\ dirState' = [dirState EXCEPT ![d] = "present"]
                  /\ Goto("agent", next)
             ELSE /\ dirState' = dirState
                  /\ IF MkdirFatal(code)
                       THEN Fatal("agent", step, criticalError(code), next)
                       ELSE Goto("agent", next)
    /\ UNCHANGED <<qvars, fs, wvars, hvars, avars, cvars, certName, signPath,
                   signArgs, world>>
AgentMkdirIn == AgentMkdir("in", "mkdirIn", "mkdirOut")
AgentMkdirOut == AgentMkdir("out", "mkdirOut", "watch")

\* part_005:58-72: new Queue(), watchDir(INPUT_DIR, true, ...)
AgentWatch ==
    /\ pc["agent"] = "watch"
    /\ Goto("agent", "watching")
    /\ names' = {} /\ tail' = 0 /\ ops' = <<>>
    /\ fireInitially' = [fireInitially EXCEPT !["agent"] = TRUE]
    /\ prevFiles' = [prevFiles EXCEPT !["agent"] = InitPrevFiles(TRUE)]
    /\ cancelled' = [cancelled EXCEPT !["agent"] = FALSE]
    /\ phase' = [phase EXCEPT !["agent"] = "timer"]
    /\ polls' = [polls EXCEPT !["agent"] = 1]
    /\ UNCHANGED <<fs, pending, curFiles, immediates, status, fired,
                   firedSinceGone, polled, hvars, avars, cvars, certName,
                   signPath, signArgs, dirState, world>>

\* builder.js:409-418
BuilderCheckIn ==
    /\ pc["builder"] = "checkIn"
    /\ IF ~world.builderShared
         THEN Goto("builder", "checkDest")
         ELSE IF AccessSyncOk(dirState["in"])
                THEN Goto("builder", "checkOut")
                ELSE Exit("builder", "input", "exit 3")
    /\ UNCHANGED <<qvars, fs, wvars, hvars, avars, cvars, certName, signPath,
                   signArgs, dirState, world>>

\* builder.js:420-425
BuilderCheckOut ==
    /\ pc["builder"] = "checkOut"
    /\ IF AccessSyncOk(dirState["out"])
         THEN Goto("builder", "checkDest")
         ELSE Exit("builder", "output", "exit 4")
    /\ UNCHANGED <<qvars, fs, wvars, hvars, avars, cvars, certName, signPath,
                   signArgs, dirState, world>>

\* builder.js:428-439
BuilderCheckDest ==
    /\ pc["builder"] = "checkDest"
    /\ LET code == MkdirCode(dirState["dest"])
       IN  IF world.destination /\ code = "ok"
             THEN /\ dirState' = [dirState EXCEPT !["dest"] = "present"]
                  /\ Goto("builder", "main")
             ELSE /\ dirState' = dirState
                  /\ IF world.destination /\ MkdirFatal(code)
                       THEN Exit("builder", "destination", "exit 4")
                       ELSE Goto("builder", "main")
    /\ UNCHANGED <<qvars, fs, wvars, hvars, avars, cvars, certName, signPath,
                   signArgs, world>>

\* Somebody puts a directory right once the service has settled, and runs
\* the builder again.
OperatorRestart ==
    /\ pc["builder"] = "exited"
    /\ pc["agent"] \in {"exited", "watching"}
    /\ \E d \in {"in", "out", "dest"} :
          /\ dirState[d] # "present"
          /\ dirState' = [dirState EXCEPT ![d] = "present"]
    /\ Goto("builder", "checkIn")
    /\ UNCHANGED <<qvars, fs, wvars, hvars, avars, cvars, certName, signPath,
                   signArgs, world>>

StartInit ==
    /\ QueueInit /\ fs = EmptyDirs /\ NoWatcher /\ NoHistory /\ NoHandoff
    /\ NoSignFile
    /\ pc = [prog \in Programs |-> IF prog = "agent" THEN "platform" ELSE "checkIn"]
    /\ world \in Worlds
    /\ dirState = [d \in {"in", "out", "dest"} |->
                     CASE d = "in" -> world.in0
                       [] d = "out" -> world.out0
                       [] OTHER -> world.dest0]
    /\ exitLog = {}
StartNext ==
    \/ AgentStartPlatform \/ AgentStartOptions \/ AgentFindSignTool
    \/ AgentMkdirIn \/ AgentMkdirOut \/ AgentWatch
    \/ BuilderCheckIn \/ BuilderCheckOut \/ BuilderCheckDest
    \/ OperatorRestart
StartSpec == StartInit /\ [][StartNext]_vars

ExitsOf(prog) == {e \in exitLog : e.prog = prog}

\* C27 (agent startup): the service gets to watching only with both
\* directories there, whether it made them or found them; it ends at a
\* mkdirSync only where the directory could not be made, never where it
\* already existed; and a service that ended has no watcher and no job.
C27_AgentStartup ==
    /\ pc["agent"] \in {"watch", "watching"}
          => /\ dirState["in"] = "present" /\ dirState["out"] = "present"
             /\ world.in0 # "blocked" /\ world.out0 # "blocked"
    /\ \A e \in ExitsOf("agent") :
          /\ e.reason = "mkdirIn" => world.in0 = "blocked"
          /\ e.reason = "mkdirOut" => world.out0 = "blocked"
    /\ pc["agent"] \in {"mkdirOut", "watch", "watching"} => world.in0 # "blocked"
    /\ pc["agent"] # "watching"
          => /\ phase["agent"] = "off"
             /\ prevFiles["agent"].null
             /\ ops = <<>>

\* The service watching after it made one directory and found the other.
C27_Witness ==
    /\ pc["agent"] = "watching"
    /\ phase["agent"] = "timer"
    /\ world.in0 = "present"
    /\ world.out0 = "absent"
    /\ dirState["out"] = "present"

\* C28 (precondition failures): every exit has a non-zero status; the exits
\* for an inaccessible input directory, an inaccessible output directory and
\* a missing signtool have three different statuses; a program gets past a
\* check only if the check passed; and a program that exited takes no step
\* (the builder runs again only when somebody starts it again).
Preconditions == {"input", "output", "signtool"}
C28_DistinctExits ==
    /\ [](/\ \A e \in exitLog : e.status \notin {"running", "exit 0"}
          /\ \A e1, e2 \in exitLog :
                ({e1.reason, e2.reason} \subseteq Preconditions
                   /\ e1.reason # e2.reason) => e1.status # e2.status
          /\ pc["agent"] \in {"mkdirIn", "mkdirOut", "watch", "watching"}
                => world.tools # {}
          /\ (world.builderShared /\ pc["builder"] \in {"checkOut", "checkDest", "main"})
                => dirState["in"] = "present"
          /\ (world.builderShared /\ pc["builder"] \in {"checkDest", "main"})
                => dirState["out"] = "present"
          /\ pc["agent"] = "exited" => phase["agent"] = "off" /\ ops = <<>>)
    /\ [][/\ pc["agent"] = "exited" => pc'["agent"] = "exited"
          /\ (pc["builder"] = "exited" /\ pc'["builder"] # "exited")
                => OperatorRestart]_vars

\* All three failures have happened.
C28_Witness ==
    \A r \in Preconditions : \E e \in exitLog : e.reason = r

\* C29 (decoupled callbacks): whenever a callback is waiting to run, the
\* snapshot has already been replaced by the one that holds its file and the
\* next poll is already scheduled (or the watcher was disposed of); the step
\* that compares and switches snapshots runs no callback, and a step that
\* runs a callback leaves snapshot and schedule alone.
C29_DecoupledCallbacks ==
    /\ [](immediates["lone"] # <<>>
            => /\ ~prevFiles["lone"].null
               /\ Range(immediates["lone"]) \subseteq prevFiles["lone"].keys
               /\ phase["lone"] \in {"timer", "off"}
               /\ phase["lone"] = "off" => cancelled["lone"])
    /\ [][/\ fired'["lone"] # fired["lone"]
             => /\ prevFiles' = prevFiles
                /\ phase' = phase
                /\ polled["lone"]
          /\ (phase["lone"] = "stat" /\ phase'["lone"] # "stat")
             => fired' = fired]_vars

\* Two callbacks of one batch waiting, snapshot switched, next poll scheduled.
C29_Witness ==
    /\ Len(immediates["lone"]) = 2
    /\ prevFiles["lone"].keys = Range(immediates["lone"])
    /\ phase["lone"] = "timer"
    /\ fired["lone"] = ZeroCount

\* C30 (no client-side timeout): while the service has put no file of the
\* handed-off name into `out` and the client's own rename has not failed, the
\* client has not resolved, its process is running, its watcher is not
\* disposed of and a poll is scheduled or under way.
C30_NoClientTimeout ==
    (~served /\ clientMove # "failed")
        => /\ resolved = ""
           /\ ~retrieved
           /\ status["client"] = "running"
           /\ ~cancelled["client"]
           /\ phase["client"] \in {"timer", "stat"}

\* The signing failed, so nothing will come; the client has polled and been
\* told of another file, and waits.
C30_Witness ==
    /\ clientMove = "done"
    /\ \E i \in signFailed : Basename(ops[i].fn) = Basename(IN_FILE)
    /\ ~served
    /\ polled["client"]
    /\ fired["client"]["b.exe"] > 0
    /\ resolved = ""
    /\ phase["client"] = "timer"

\* C31 (signing failure is invisible to the client): once signtool has
\* failed for the handed-off file, the file is in `in` as it was handed in
\* (unless somebody deleted it), the service has put nothing of that name
\* into `out`, and the client has neither resolved nor ended.
HandoffSignFailed ==
    \E i \in signFailed : Basename(ops[i].fn) = Basename(IN_FILE)
C31_SignFailureInvisible ==
    HandoffSignFailed
        => /\ changes = 0 => fs["in"][Basename(IN_FILE)] = "unsigned"
           /\ fs["in"][Basename(IN_FILE)] \in {"unsigned", "none"}
           /\ ~served
           /\ fs["out"][Basename(IN_FILE)] \in {"none", "old"}
           /\ \A m \in moves : Basename(m[1]) # Basename(IN_FILE)
           /\ resolved = ""
           /\ outFile = "none"
           /\ status["client"] = "running"

\* signtool failed for the handoff and the service went on to relocate
\* another file, of which the client was told.
C31_Witness ==
    /\ HandoffSignFailed
    /\ changes = 0
    /\ fs["in"][Basename(IN_FILE)] = "unsigned"
    /\ fs["out"]["b.exe"] = "signed"
    /\ fired["client"]["b.exe"] > 0
    /\ phase["client"] = "timer"

\* C32 (snapshot before placement): the file the service puts into `out` is
\* never taken into the client's snapshot by the first poll, that is, never
\* in the snapshot without a callback for it having been scheduled.
AbsorbedAsPreExisting ==
    /\ served
    /\ Basename(IN_FILE) \in prevFiles["client"].keys
    /\ Basename(IN_FILE) \notin Range(immediates["client"])
    /\ fired["client"][Basename(IN_FILE)] = 0
C32_SnapshotBeforePlacement == ~AbsorbedAsPreExisting

\* C33 (stale same-name output blocks the handoff): a client whose first
\* poll found the handed-off name in `out` has the name in its snapshot with
\* no callback scheduled for it; a stale file there at that poll puts it in
\* that condition; the condition lasts, whatever the service relocates, and
\* in it the client has not resolved nor disposed of its watcher.
InFirstSnapshot ==
    /\ polled["client"]
    /\ Basename(IN_FILE) \in prevFiles["client"].keys
    /\ Basename(IN_FILE) \notin Range(immediates["client"])
    /\ fired["client"][Basename(IN_FILE)] = 0
C33_StaleOutputBlocks ==
    /\ []((fs["out"][Basename(IN_FILE)] = "old" /\ polled["client"])
             => InFirstSnapshot)
    /\ [](InFirstSnapshot
             => /\ resolved = ""
                /\ ~cancelled["client"]
                /\ outFile = "none"
                /\ fs["out"][Basename(IN_FILE)] # "none")
    /\ [][InFirstSnapshot => InFirstSnapshot']_vars

\* The signed file has replaced the stale one, the client has listed `out`
\* since and waits for its next poll.
C33_Witness ==
    /\ InFirstSnapshot
    /\ served
    /\ fs["out"][Basename(IN_FILE)] = "signed"
    /\ Basename(IN_FILE) \in Range(curFiles["client"])
    /\ fired["client"]["b.exe"] > 0
    /\ phase["client"] = "timer"
    /\ resolved = ""

\* C34 (polling granularity): a name no listing has returned is in no
\* snapshot and has no callback, queued or invoked; a name is reported at most
\* once since the last completed poll whose snapshot lacked it, whatever was
\* deleted and created under it meanwhile; and the step that ends a poll
\* queues a callback for exactly the names its listing holds and the previous
\* snapshot lacks.
C34_PollingGranularity ==
    /\ [](\A n \in FileNames :
            /\ listed[n] = "never"
                 => /\ fired["lone"][n] = 0
                    /\ n \notin Range(immediates["lone"])
                    /\ n \notin prevFiles["lone"].keys
            /\ firedSinceGone["lone"][n] <= 1)
    /\ [][(phase["lone"] = "stat" /\ phase'["lone"] # "stat"
             /\ ~prevFiles["lone"].null)
            => /\ Range(immediates'["lone"]) =
                     Range(curFiles["lone"]) \ prevFiles["lone"].keys
               /\ Len(immediates'["lone"]) = Cardinality(Range(immediates'["lone"]))]_vars

\* A file reported by the first poll, deleted and created again before the
\* next listing, which returned it: that poll is over, and the one report is
\* all there is.
C34_Witness ==
    \E n \in LoneNames :
        /\ fireInitially["lone"]
        /\ n \in atStart
        /\ listed[n] = "again"
        /\ status["lone"] = "running"
        /\ phase["lone"] = "timer"
        /\ immediates["lone"] = <<>>
        /\ n \in prevFiles["lone"].keys
        /\ fired["lone"][n] = 1

\* C35 (single poll in flight): at most one call of checkForChanges is
\* scheduled or under way; one is scheduled only by the step that ends a
\* poll, when every stat of that poll has called back, and that step puts
\* the poll's listing in place of the snapshot; nothing else touches the
\* snapshot.
C35_SinglePollInFlight ==
    /\ [](/\ polls["lone"] \in {0, 1}
          /\ phase["lone"] \in {"off", "failed"} => polls["lone"] = 0
          /\ phase["lone"] \in {"timer", "stat"} => polls["lone"] = 1
          /\ phase["lone"] = "timer" => pending["lone"] = {})
    /\ [][/\ (phase["lone"] = "stat" /\ phase'["lone"] # "stat")
                => /\ pending["lone"] = {}
                   /\ ~prevFiles'["lone"].null
                   /\ prevFiles'["lone"].keys = Range(curFiles["lone"])
          /\ prevFiles'["lone"] # prevFiles["lone"]
                => (phase["lone"] = "stat" /\ pending["lone"] = {})
          /\ (phase["lone"] # "stat" /\ phase'["lone"] = "stat")
                => (phase["lone"] = "timer" /\ polls["lone"] = 1)]_vars

\* A later poll under way, some of its stats outstanding.
C35_Witness ==
    /\ polled["lone"]
    /\ phase["lone"] = "stat"
    /\ polls["lone"] = 1
    /\ pending["lone"] # {}
    /\ curFiles["lone"] # <<>>
    /\ Range(curFiles["lone"]) # prevFiles["lone"].keys

\* C36 (no loss or duplication on the service's side): as long as nobody
\* else deletes anything from `in`, every file given to the service (a stale
\* file of `out` not counted) is in exactly one of `in` and `out`: the
\* handed-off one from the end of the client's rename until the client has
\* fetched it, a leftover for good.
Copies(n) ==
    Cardinality({d \in {"in", "out"} : fs[d][n] \in {"unsigned", "signed"}})
C36_NoLossNoDuplication ==
    changes = 0
        => /\ (clientMove = "done" /\ ~retrieved) => Copies(Basename(IN_FILE)) = 1
           /\ \A i \in 1..Len(ops) :
                 (Basename(ops[i].fn) # Basename(IN_FILE) \/ ~retrieved)
                    => Copies(Basename(ops[i].fn)) = 1
           /\ \A n \in FileNames : Copies(n) <= 1

\* The handed-off file relocated and not yet fetched, a leftover whose
\* signing failed still in `in`.
C36_Witness ==
    /\ changes = 0
    /\ served
    /\ resolved = ""
    /\ fs["in"][Basename(IN_FILE)] = "none"
    /\ fs["out"][Basename(IN_FILE)] = "signed"
    /\ fs["in"]["b.exe"] = "unsigned"
    /\ \E i \in signFailed : Basename(ops[i].fn) = "b.exe"

====
